---- MODULE Spec2Model ----
(***************************************************************************)
(* osm-coffee: the in-memory response cache (js/cache.js) and the fetch    *)
(* coordinator (js/api.js) with its callers (js/map.js, js/filters.js),    *)
(* and debounce (js/utils.js), toggleFilter and the favorites store        *)
(* (js/favorites.js) on their own.                                         *)
(*                                                                         *)
(* The specifications share the variables: SpecCache drives the cache API  *)
(* directly, SpecFunctions calls the functions without state (getCacheKey, *)
(* getLocationType, getElementCoordinates) on inputs drawn at the start,   *)
(* Spec is the application and FairSpec the application under the          *)
(* scheduling of the runtime, SpecDirect adds direct calls of              *)
(* fetchCoffeeLocations with malformed bounds, SpecDebounce and            *)
(* FairDebounce drive a debounced function, SpecFilters calls toggleFilter *)
(* with a counting callback, SpecFavorites calls the favorites API.        *)
(*                                                                         *)
(* Time is counted in ticks of Date.now(); CACHE_TTL and CACHE_MAX_SIZE    *)
(* keep their roles but are scaled down to two ticks and a few entries.    *)
(* OVERPASS_TIMEOUT (30 s) is shorter than one tick (CACHE_TTL / 2, 5 min),*)
(* so an armed timeout timer may fire at any moment of the model.          *)
(* Coordinates are integers in units of 1e-4 degree; strings that are      *)
(* sorted or joined are sequences of UTF-16 code units.                    *)
(***************************************************************************)
EXTENDS Integers, Sequences, FiniteSets, TLC

\* ------------------------------------------------------------------------
\* Program constants (js/config.js), scaled
\* ------------------------------------------------------------------------
CACHE_TTL == 2

CACHE_MAX_SIZE == 2

\* ------------------------------------------------------------------------
\* Bounds of the model
\* ------------------------------------------------------------------------
MaxTime == 2

MaxRequests == 3

\* ------------------------------------------------------------------------
\* OSM elements and payloads
\* ------------------------------------------------------------------------
NoTag == "-"

\* a property that may be missing: element.lat, element.lon
undefined == [undefined |-> TRUE, value |-> 0]

Num(n) == [undefined |-> FALSE, value |-> n]

\* element.center: missing, or an object with lat and lon
NoCenter == [present |-> FALSE, lat |-> undefined, lon |-> undefined]

Center(lat, lon) == [present |-> TRUE, lat |-> Num(lat), lon |-> Num(lon)]

\* elements as Overpass delivers them with "out center": a node has lat and
\* lon, a way has a center or nothing
ElemCafe ==
    [id |-> 1, type |-> "node", lat |-> Num(488570), lon |-> Num(23530),
     center |-> NoCenter,
     craft |-> NoTag, shop |-> NoTag, amenity |-> "cafe", cuisine |-> NoTag]

ElemRoaster ==
    [id |-> 2, type |-> "way", lat |-> undefined, lon |-> undefined,
     center |-> Center(488580, 23540),
     craft |-> "roaster", shop |-> "coffee", amenity |-> NoTag, cuisine |-> NoTag]

ElemShopNoCoords ==
    [id |-> 3, type |-> "way", lat |-> undefined, lon |-> undefined,
     center |-> NoCenter,
     craft |-> NoTag, shop |-> "coffee", amenity |-> NoTag, cuisine |-> NoTag]

\* a node that lacks lat and lon, which Overpass does not deliver itself
ElemNodeNoCoords ==
    [id |-> 4, type |-> "node", lat |-> undefined, lon |-> undefined,
     center |-> NoCenter,
     craft |-> NoTag, shop |-> NoTag, amenity |-> "cafe", cuisine |-> NoTag]

\* data.elements of a response
Payloads ==
    { <<>>, <<ElemCafe, ElemRoaster, ElemShopNoCoords, ElemNodeNoCoords>> }

\* data arrays handed to setCache by a direct caller
Data == { <<ElemCafe>>, <<ElemCafe, ElemRoaster>> }

\* ------------------------------------------------------------------------
\* Viewports and filter states
\* ------------------------------------------------------------------------
\* south, west, north, east in 1e-4 degree; B1 and B2 round to the same
\* 3-decimal values, B3 does not
B1 == [south |-> 488566, west |-> 23522, north |-> 488666, east |-> 23622]

B2 == [south |-> 488568, west |-> 23521, north |-> 488667, east |-> 23623]

B3 == [south |-> 407128, west |-> -740060, north |-> 407228, east |-> -739960]

Bounds == {B1, B2, B3}

\* B1 with another east edge
B4 == [south |-> 488566, west |-> 23522, north |-> 488666, east |-> 23722]

\* the numbers of B1 with latitudes and longitudes exchanged
B5 == [south |-> 23522, west |-> 488566, north |-> 23622, east |-> 488666]

\* Greenwich: the west edge just west and just east of the prime meridian
B6 == [south |-> 514720, west |-> -3, north |-> 514820, east |-> 102]

B7 == [south |-> 514720, west |-> 3, north |-> 514820, east |-> 102]

\* the viewports handed to getCacheKey by a direct caller; none has a
\* coordinate halfway between two thousandths
Viewports == Bounds \cup {B4, B5, B6, B7}

FilterTypes == {"cafe", "shop", "roastery"}

InitFilterState == [t \in FilterTypes |-> TRUE]

\* the legend items that get clicked
ToggledTypes == {"roastery"}

\* ------------------------------------------------------------------------
\* getCacheKey
\* ------------------------------------------------------------------------
Abs(x) == IF x < 0 THEN -x ELSE x

\* Number.prototype.toFixed(3) of x/10000: sign and thousandths
toFixed3(x) == [neg |-> x < 0, mag |-> (Abs(x) + 5) \div 10]

\* the UTF-16 code units of a type name
CodeUnits(s) ==
    CASE s = "cafe"     -> <<99, 97, 102, 101>>
      [] s = "shop"     -> <<115, 104, 111, 112>>
      [] s = "roastery" -> <<114, 111, 97, 115, 116, 101, 114, 121>>

\* the code units of ","
Comma == <<44>>

\* a sorts before b: the order of Array.prototype.sort() without comparator
RECURSIVE CodeUnitsLess(_, _)
CodeUnitsLess(a, b) ==
    IF b = <<>> THEN FALSE
    ELSE IF a = <<>> THEN TRUE
    ELSE IF Head(a) # Head(b) THEN Head(a) < Head(b)
    ELSE CodeUnitsLess(Tail(a), Tail(b))

RECURSIVE InsertName(_, _)
InsertName(s, n) ==
    IF s = <<>> THEN <<n>>
    ELSE IF ~CodeUnitsLess(CodeUnits(n), CodeUnits(s[Len(s)]))
         THEN Append(s, n)
         ELSE Append(InsertName(SubSeq(s, 1, Len(s) - 1), n), s[Len(s)])

\* mutant: the names stay in the order of the object's properties
SortNamesKeepingOrder(names) == names

\* .sort()
RECURSIVE SortNames(_)
SortNames(names) ==
    IF names = <<>> THEN <<>>
    ELSE InsertName(SortNames(SubSeq(names, 1, Len(names) - 1)), names[Len(names)])

\* .join(','), as code units
RECURSIVE Join(_)
Join(names) ==
    IF names = <<>> THEN <<>>
    ELSE IF Len(names) = 1 THEN CodeUnits(names[1])
    ELSE CodeUnits(names[1]) \o Comma \o Join(Tail(names))

\* Object.entries of the filterState object of config.js: its properties in
\* the order they were created; a toggle assigns to an existing property
ObjectEntries(fs) ==
    << [type |-> "cafe",     enabled |-> fs["cafe"]],
       [type |-> "shop",     enabled |-> fs["shop"]],
       [type |-> "roastery", enabled |-> fs["roastery"]] >>

\* mutant: the disabled types are named in the key as well
EnabledNamesAll(entries) == [i \in 1..Len(entries) |-> entries[i].type]

\* .filter(([_, enabled]) => enabled).map(([type]) => type)
EnabledNames(entries) ==
    LET on == SelectSeq(entries, LAMBDA e : e.enabled)
    IN  [i \in 1..Len(on) |-> on[i].type]

\* filters is the sequence Object.entries(filters); the key is south, west,
\* north, east and the joined names, the parts `${...},...|${filterKey}` of
\* the template
getCacheKey(bounds, filters) ==
    LET south == toFixed3(bounds.south)
        west  == toFixed3(bounds.west)
        north == toFixed3(bounds.north)
        east  == toFixed3(bounds.east)
        filterKey == Join(SortNames(EnabledNames(filters)))
    IN  <<south, west, north, east, filterKey>>

\* the orders in which an object can list properties named by type
PropertyOrders ==
    { o \in UNION { [1..n -> FilterTypes] : n \in 0..Cardinality(FilterTypes) } :
        \A i, j \in 1..Len(o) : i # j => o[i] # o[j] }

\* the filter objects handed to getCacheKey by a direct caller, as their
\* Object.entries: some of the types, in any order, each enabled or not
FilterObjects ==
    UNION { { [i \in 1..Len(o) |-> [type |-> o[i], enabled |-> e[i]]] :
                e \in [1..Len(o) -> BOOLEAN] } : o \in PropertyOrders }

\* the set of enabled type names of a filter object
EnabledSet(filters) ==
    { filters[i].type : i \in { j \in 1..Len(filters) : filters[j].enabled } }

\* keys used by a direct caller of the cache
TestKeys ==
    { getCacheKey(b, ObjectEntries(InitFilterState)) : b \in Bounds } \cup
    { getCacheKey(B1, ObjectEntries([InitFilterState EXCEPT !["shop"] = FALSE])) }

NoKey == <<>>

\* ------------------------------------------------------------------------
\* The Map behind the cache: a sequence of entries in insertion order
\* ------------------------------------------------------------------------
MapHas(c, k) == \E i \in 1..Len(c) : c[i].key = k

MapIndex(c, k) == CHOOSE i \in 1..Len(c) : c[i].key = k

MapGet(c, k) == c[MapIndex(c, k)]

\* Map.prototype.set: an existing key keeps its position
MapSet(c, k, d, t) ==
    LET e == [key |-> k, data |-> d, timestamp |-> t]
    IN  IF MapHas(c, k) THEN [c EXCEPT ![MapIndex(c, k)] = e] ELSE Append(c, e)

MapDelete(c, k) == SelectSeq(c, LAMBDA e : e.key # k)

MapKeys(c) == { c[i].key : i \in 1..Len(c) }

\* ------------------------------------------------------------------------
\* cache.js
\* ------------------------------------------------------------------------
null == [null |-> TRUE, value |-> <<>>]

Value(d) == [null |-> FALSE, value |-> d]

\* mutant: an entry of age CACHE_TTL still counts as valid
isEntryValidInclusive(entry, t) ==
    LET age == t - entry.timestamp
    IN  age <= CACHE_TTL

isEntryValid(entry, t) ==
    LET age == t - entry.timestamp
    IN  age < CACHE_TTL

\* mutant: a lookup of an unknown key also drops the expired entries
getFromCachePurgingOnMiss(c, key, t) ==
    IF ~MapHas(c, key)
    THEN [cache |-> SelectSeq(c, LAMBDA e : isEntryValid(e, t)), ret |-> null]
    ELSE IF ~isEntryValid(MapGet(c, key), t)
         THEN [cache |-> MapDelete(c, key), ret |-> null]
         ELSE [cache |-> c, ret |-> Value(MapGet(c, key).data)]

\* each operation yields the cache it leaves and the value it returns
getFromCache(c, key, t) ==
    IF ~MapHas(c, key)
    THEN [cache |-> c, ret |-> null]
    ELSE IF ~isEntryValid(MapGet(c, key), t)
         THEN [cache |-> MapDelete(c, key), ret |-> null]
         ELSE [cache |-> c, ret |-> Value(MapGet(c, key).data)]

\* mutant: an entry is put before the entries of equal timestamp
RECURSIVE InsertSortedBeforeEqual(_, _)
InsertSortedBeforeEqual(s, e) ==
    IF s = <<>> THEN <<e>>
    ELSE IF s[Len(s)].timestamp < e.timestamp
         THEN Append(s, e)
         ELSE Append(InsertSortedBeforeEqual(SubSeq(s, 1, Len(s) - 1), e), s[Len(s)])

\* entries.sort((a, b) => a[1].timestamp - b[1].timestamp), stable
RECURSIVE InsertSorted(_, _)
InsertSorted(s, e) ==
    IF s = <<>> THEN <<e>>
    ELSE IF s[Len(s)].timestamp <= e.timestamp
         THEN Append(s, e)
         ELSE Append(InsertSorted(SubSeq(s, 1, Len(s) - 1), e), s[Len(s)])

RECURSIVE SortByTimestamp(_)
SortByTimestamp(s) ==
    IF s = <<>> THEN <<>>
    ELSE InsertSorted(SortByTimestamp(SubSeq(s, 1, Len(s) - 1)), s[Len(s)])

\* mutant: the expired entries are left in place
RemoveExpiredNone(c, t) == c

RemoveExpired(c, t) == SelectSeq(c, LAMBDA e : isEntryValid(e, t))

\* mutant: the newest entries are removed instead of the oldest
RemoveNewest(c) ==
    IF Len(c) > CACHE_MAX_SIZE
    THEN LET entries  == SortByTimestamp(c)
             toRemove == SubSeq(entries, CACHE_MAX_SIZE + 1, Len(c))
             keys     == { toRemove[i].key : i \in 1..Len(toRemove) }
         IN  SelectSeq(c, LAMBDA e : e.key \notin keys)
    ELSE c

\* mutant: the size test is off by one
RemoveOldestOffByOne(c) ==
    IF Len(c) > CACHE_MAX_SIZE + 1
    THEN LET entries  == SortByTimestamp(c)
             toRemove == SubSeq(entries, 1, Len(c) - CACHE_MAX_SIZE)
             keys     == { toRemove[i].key : i \in 1..Len(toRemove) }
         IN  SelectSeq(c, LAMBDA e : e.key \notin keys)
    ELSE c

RemoveOldest(c) ==
    IF Len(c) > CACHE_MAX_SIZE
    THEN LET entries  == SortByTimestamp(c)
             toRemove == SubSeq(entries, 1, Len(c) - CACHE_MAX_SIZE)
             keys     == { toRemove[i].key : i \in 1..Len(toRemove) }
         IN  SelectSeq(c, LAMBDA e : e.key \notin keys)
    ELSE c

cleanupCache(c, t) == RemoveOldest(RemoveExpired(c, t))

setCache(c, key, data, t) ==
    [cache |-> cleanupCache(MapSet(c, key, data, t), t), ret |-> null]

\* mutant: only the first entry is deleted
clearCacheFirstOnly(c) == [cache |-> IF c = <<>> THEN c ELSE Tail(c), ret |-> null]

clearCache(c) == [cache |-> <<>>, ret |-> null]

NoStats ==
    [totalEntries |-> 0, validEntries |-> 0, expiredEntries |-> 0,
     maxSize |-> 0, ttl |-> 0]

\* mutant: counting the expired entries also deletes them
getCacheStatsPurging(c, t) ==
    [cache |-> SelectSeq(c, LAMBDA e : isEntryValid(e, t)),
     ret   |-> [totalEntries   |-> Len(c),
                validEntries   |-> Len(SelectSeq(c, LAMBDA e : isEntryValid(e, t))),
                expiredEntries |-> Len(SelectSeq(c, LAMBDA e : ~isEntryValid(e, t))),
                maxSize        |-> CACHE_MAX_SIZE,
                ttl            |-> CACHE_TTL]]

getCacheStats(c, t) ==
    [cache |-> c,
     ret   |-> [totalEntries   |-> Len(c),
                validEntries   |-> Len(SelectSeq(c, LAMBDA e : isEntryValid(e, t))),
                expiredEntries |-> Len(SelectSeq(c, LAMBDA e : ~isEntryValid(e, t))),
                maxSize        |-> CACHE_MAX_SIZE,
                ttl            |-> CACHE_TTL]]

\* ------------------------------------------------------------------------
\* utils.js, api.js: classification and filtering of a payload
\* ------------------------------------------------------------------------
\* mutant: the shop test comes before the roaster test
getLocationTypeShopFirst(tags) ==
    IF tags.shop = "coffee" THEN "shop"
    ELSE IF tags.craft = "roaster" THEN "roastery"
    ELSE IF tags.amenity = "fast_food" /\ tags.cuisine = "sandwich" THEN "sandwich"
    ELSE "cafe"

\* the type of the { type, label } returned
getLocationType(tags) ==
    IF tags.craft = "roaster" THEN "roastery"
    ELSE IF tags.shop = "coffee" THEN "shop"
    ELSE IF tags.amenity = "fast_food" /\ tags.cuisine = "sandwich" THEN "sandwich"
    ELSE "cafe"

\* { lat, lon } or null
getElementCoordinates(element) ==
    IF element.type = "node"
    THEN Value([lat |-> element.lat, lon |-> element.lon])
    ELSE IF element.center.present
         THEN Value([lat |-> element.center.lat, lon |-> element.center.lon])
         ELSE null

\* filterState[type], undefined (falsy) for a type without flag
FilterFlag(filters, type) == type \in DOMAIN filters /\ filters[type]

FilterElements(elements, filters) ==
    SelectSeq(elements,
              LAMBDA e : /\ getElementCoordinates(e) # null
                         /\ FilterFlag(filters, getLocationType(e)))

\* ------------------------------------------------------------------------
\* api.js: the request register
\* ------------------------------------------------------------------------
NoController == 0

\* mutant: the pending request is left running
AbortNone(reqs, cur) == reqs

\* currentAbortController.abort(), when a controller is held
AbortCurrent(reqs, cur) ==
    IF cur # NoController THEN [reqs EXCEPT ![cur].aborted = TRUE] ELSE reqs

\* mutant: the register is cleared whoever holds it
FinallyClearAlways(cur, r) == NoController

\* mutant: the register is cleared when another request holds it
FinallyClearUnlessOwn(cur, r) == IF cur # r THEN NoController ELSE cur

\* the finally block: clear the register if it holds this request's controller
FinallyClear(cur, r) == IF cur = r THEN NoController ELSE cur

\* mutant: the cache is looked up first, and a pending request is cancelled
\* only when a new one is sent
fetchCoffeeLocationsCacheFirst(bounds, c, fs, cur, reqs, t) ==
    LET id       == Len(reqs) + 1
        aborted  == AbortCurrent(reqs, cur)
        cacheKey == getCacheKey(bounds, ObjectEntries(fs))
        got      == getFromCache(c, cacheKey, t)
        call     == [pc |-> "done", aborted |-> FALSE, timer |-> FALSE,
                     cacheKey |-> NoKey]
    IN  IF got.ret # null
        THEN [cache |-> got.cache, current |-> cur, hit |-> TRUE,
              data |-> got.ret.value,
              requests |-> Append(reqs, call)]
        ELSE [cache |-> got.cache, current |-> id, hit |-> FALSE,
              data |-> <<>>,
              requests |-> Append(aborted,
                  [call EXCEPT !.pc = "fetch", !.timer = TRUE,
                               !.cacheKey = cacheKey])]

\* fetchCoffeeLocations(bounds) up to its first await, on cache c, filter
\* state fs, register cur and requests reqs.  The call gets the next id.
fetchCoffeeLocations(bounds, c, fs, cur, reqs, t) ==
    LET id       == Len(reqs) + 1
        aborted  == AbortCurrent(reqs, cur)
        cacheKey == getCacheKey(bounds, ObjectEntries(fs))
        got      == getFromCache(c, cacheKey, t)
        call     == [pc |-> "done", aborted |-> FALSE, timer |-> FALSE,
                     cacheKey |-> NoKey]
    IN  IF got.ret # null
        THEN [cache |-> got.cache, current |-> cur, hit |-> TRUE,
              data |-> got.ret.value,
              requests |-> Append(aborted, call)]
        ELSE [cache |-> got.cache, current |-> id, hit |-> FALSE,
              data |-> <<>>,
              requests |-> Append(aborted,
                  [call EXCEPT !.pc = "fetch", !.timer = TRUE,
                               !.cacheKey = cacheKey])]

\* ------------------------------------------------------------------------
\* State
\* ------------------------------------------------------------------------
VARIABLES
    cache,      \* the Map of cache.js, in insertion order
    now,        \* Date.now()
    lastOp,     \* the last direct call of the cache API: arguments, result,
                \* cache before
    watched,    \* the key whose history is recorded (any key, fixed at the start)
    lastSet,    \* for the watched key: time and data of its latest setCache, and
                \* whether clearCache ran since
    filterState,            \* config.js: type name -> enabled
    currentAbortController, \* api.js: id of the request whose controller is held
    requests,   \* the calls of fetchCoffeeLocations so far, in order of issue:
                \* where the call stands (pc), whether its timeout timer is
                \* armed and, while it is pending, its cache key and whether
                \* the signal of its controller is aborted
    lastSettled,\* the call that returned or threw last, and how
    loading,    \* map.js: the loading element carries the class 'active'
    markers,    \* map.js: the call whose result fills the coffeeMarkers layer
    call,       \* the last direct call of a function without state: its name,
                \* the arguments and the results
    timers,         \* the browser's timers armed by setTimeout and not yet
                    \* run or cleared: handle, time due and the arguments
                    \* bound in the callback
    debounceTimer,  \* utils.js: the handle kept in the closure of debounce
    debounceLog,    \* the calls of the debounced function and the runs of
                    \* func, in order, each with its time and arguments
    localStorage,   \* the item stored under STORAGE_KEY, if any
    favoriteCalls,  \* the direct calls of the favorites API, in order: the
                    \* function, the element, the stored item before and
                    \* after, and what the call returned
    legend,         \* the legend items of the document: for each type whether
                    \* the item exists and whether it carries 'disabled'
    updateMarkersCallCount, \* filters.test.js: the runs of the callback a
                    \* direct caller hands to toggleFilter
    toggleLog       \* the direct calls of toggleFilter, in order: the type and
                    \* the filter state before and after

cacheVars == <<cache, now>>

histVars == <<lastOp, watched, lastSet, call>>

appVars == <<filterState, currentAbortController, requests, lastSettled,
            loading, markers>>

uiVars == <<timers, debounceTimer, debounceLog, localStorage, favoriteCalls,
           legend, updateMarkersCallCount, toggleLog>>

vars == <<cache, now, lastOp, watched, lastSet,
          filterState, currentAbortController, requests, lastSettled,
          loading, markers, call,
          timers, debounceTimer, debounceLog, localStorage, favoriteCalls,
          legend, updateMarkersCallCount, toggleLog>>

NoOp ==
    [op |-> "none", key |-> NoKey, data |-> <<>>, ret |-> null,
     stats |-> NoStats, before |-> <<>>]

NeverSet == [set |-> FALSE, t |-> 0, data |-> <<>>, cleared |-> FALSE]

NoMarkers == 0

NoCall == [fn |-> "none", args |-> <<>>, returned |-> FALSE, ret |-> <<>>]

\* a call that went to the network is superseded once a later call is made
Superseded(reqs, r) == r < Len(reqs)

NoneSettled == [id |-> 0, outcome |-> "none", superseded |-> FALSE]

InitApp ==
    /\ filterState = InitFilterState
    /\ currentAbortController = NoController
    /\ requests = <<>>
    /\ lastSettled = NoneSettled
    /\ loading = FALSE
    /\ markers = NoMarkers

NoTimer == 0

\* localStorage.getItem(STORAGE_KEY) of a storage without the item
NoItem == [present |-> FALSE, json |-> <<>>]

\* filters.js: the legend item of the type, when the document has one, carries
\* 'disabled' exactly when the type is switched off
UpdateLegendItem(lg, type, enabled) ==
    IF lg[type].exists THEN [lg EXCEPT ![type].disabled = ~enabled] ELSE lg

LegendItem(exists, disabled) == [exists |-> exists, disabled |-> disabled]

\* no timer armed, nothing stored, a legend item for every type, all enabled
InitUi ==
    /\ timers = {}
    /\ debounceTimer = NoTimer
    /\ debounceLog = <<>>
    /\ localStorage = NoItem
    /\ favoriteCalls = <<>>
    /\ legend = [t \in FilterTypes |-> LegendItem(TRUE, FALSE)]
    /\ updateMarkersCallCount = 0
    /\ toggleLog = <<>>

\* the application after the modules are loaded
Init ==
    /\ cache = <<>>
    /\ now = 0
    /\ lastOp = NoOp
    /\ watched = NoKey
    /\ lastSet = NeverSet
    /\ call = NoCall
    /\ InitApp
    /\ InitUi

\* the cache module alone, driven by a direct caller
InitCache ==
    /\ cache = <<>>
    /\ now = 0
    /\ lastOp = NoOp
    /\ watched \in TestKeys
    /\ lastSet = NeverSet
    /\ call = NoCall
    /\ InitApp
    /\ InitUi

\* Date.now() advances
Tick ==
    /\ now < MaxTime
    /\ now' = now + 1
    /\ lastOp' = NoOp
    /\ UNCHANGED <<cache, watched, lastSet>>
    /\ UNCHANGED appVars
    /\ UNCHANGED uiVars
    /\ UNCHANGED call

\* ---- direct calls of the cache API ----
CallSetCache(key, data) ==
    LET r == setCache(cache, key, data, now)
    IN  /\ cache' = r.cache
        /\ lastOp' = [NoOp EXCEPT !.op = "set", !.key = key, !.data = data,
                                  !.before = cache]
        /\ lastSet' = IF key = watched
                      THEN [set |-> TRUE, t |-> now, data |-> data, cleared |-> FALSE]
                      ELSE lastSet
        /\ UNCHANGED <<now, watched>>
        /\ UNCHANGED appVars
        /\ UNCHANGED uiVars
        /\ UNCHANGED call

CallGetFromCache(key) ==
    LET r == getFromCache(cache, key, now)
    IN  /\ cache' = r.cache
        /\ lastOp' = [NoOp EXCEPT !.op = "get", !.key = key, !.ret = r.ret,
                                  !.before = cache]
        /\ UNCHANGED <<now, watched, lastSet>>
        /\ UNCHANGED appVars
        /\ UNCHANGED uiVars
        /\ UNCHANGED call

CallClearCache ==
    LET r == clearCache(cache)
    IN  /\ cache' = r.cache
        /\ lastOp' = [NoOp EXCEPT !.op = "clear", !.before = cache]
        /\ lastSet' = [lastSet EXCEPT !.cleared = lastSet.set]
        /\ UNCHANGED <<now, watched>>
        /\ UNCHANGED appVars
        /\ UNCHANGED uiVars
        /\ UNCHANGED call

CallGetCacheStats ==
    LET r == getCacheStats(cache, now)
    IN  /\ cache' = r.cache
        /\ lastOp' = [NoOp EXCEPT !.op = "stats", !.stats = r.ret, !.before = cache]
        /\ UNCHANGED <<now, watched, lastSet>>
        /\ UNCHANGED appVars
        /\ UNCHANGED uiVars
        /\ UNCHANGED call

NextCache ==
    \/ Tick
    \/ \E k \in TestKeys, d \in Data : CallSetCache(k, d)
    \/ \E k \in TestKeys : CallGetFromCache(k)
    \/ CallClearCache
    \/ CallGetCacheStats

SpecCache == InitCache /\ [][NextCache]_vars

\* ---- direct calls of the functions without state ----
\* a caller about to call getCacheKey twice, to compare the keys: with two
\* filter objects for one viewport, or two viewports for one filter object
KeyCalls ==
    { [fn |-> "getCacheKey", args |-> << <<b, f1>>, <<b, f2>> >>,
       returned |-> FALSE, ret |-> <<>>] :
          b \in {B1, B3}, f1 \in FilterObjects, f2 \in FilterObjects } \cup
    { [fn |-> "getCacheKey", args |-> << <<b1, f>>, <<b2, f>> >>,
       returned |-> FALSE, ret |-> <<>>] :
          b1 \in Viewports, b2 \in Viewports, f \in FilterObjects }

\* tag mappings handed to getLocationType: each tag missing, with the value
\* the function tests for, or with another value
TagMappings ==
    [craft   : {NoTag, "roaster", "brewery"},
     shop    : {NoTag, "coffee", "bakery"},
     amenity : {NoTag, "cafe", "fast_food"},
     cuisine : {NoTag, "sandwich", "pizza"}]

TypeCalls ==
    { [fn |-> "getLocationType", args |-> <<tags>>, returned |-> FALSE,
       ret |-> <<>>] : tags \in TagMappings }

\* elements handed to getElementCoordinates: of any kind, with or without
\* lat and lon, with or without center
Elements ==
    { [id |-> 4, type |-> type, lat |-> ll[1], lon |-> ll[2], center |-> center,
       craft |-> NoTag, shop |-> NoTag, amenity |-> "cafe", cuisine |-> NoTag] :
          type \in {"node", "way", "relation"},
          ll \in { <<undefined, undefined>>, <<Num(488570), Num(23530)>> },
          center \in {NoCenter, Center(488580, 23540)} }

CoordinateCalls ==
    { [fn |-> "getElementCoordinates", args |-> <<element>>, returned |-> FALSE,
       ret |-> <<>>] : element \in Elements }

InitFunctions ==
    /\ cache = <<>>
    /\ now = 0
    /\ lastOp = NoOp
    /\ watched = NoKey
    /\ lastSet = NeverSet
    /\ call \in KeyCalls \cup TypeCalls \cup CoordinateCalls
    /\ InitApp
    /\ InitUi

CallGetCacheKey ==
    /\ call.fn = "getCacheKey"
    /\ ~call.returned
    /\ call' = [call EXCEPT !.returned = TRUE,
                            !.ret = << getCacheKey(call.args[1][1], call.args[1][2]),
                                       getCacheKey(call.args[2][1], call.args[2][2]) >>]
    /\ UNCHANGED <<cache, now, lastOp, watched, lastSet>>
    /\ UNCHANGED appVars
    /\ UNCHANGED uiVars

CallGetLocationType ==
    /\ call.fn = "getLocationType"
    /\ ~call.returned
    /\ call' = [call EXCEPT !.returned = TRUE,
                            !.ret = getLocationType(call.args[1])]
    /\ UNCHANGED <<cache, now, lastOp, watched, lastSet>>
    /\ UNCHANGED appVars
    /\ UNCHANGED uiVars

CallGetElementCoordinates ==
    /\ call.fn = "getElementCoordinates"
    /\ ~call.returned
    /\ call' = [call EXCEPT !.returned = TRUE,
                            !.ret = getElementCoordinates(call.args[1])]
    /\ UNCHANGED <<cache, now, lastOp, watched, lastSet>>
    /\ UNCHANGED appVars
    /\ UNCHANGED uiVars

NextFunctions ==
    \/ CallGetCacheKey
    \/ CallGetLocationType
    \/ CallGetElementCoordinates

SpecFunctions == InitFunctions /\ [][NextFunctions]_vars

\* ---- the application ----
\* updateCoffeeMarkers() with map.getBounds() = bounds, run on cache c and
\* filter state fs: up to the await of the network call, or through to the
\* end when the cache answers
RunUpdateCoffeeMarkers(bounds, c, fs) ==
    LET f == fetchCoffeeLocations(bounds, c, fs, currentAbortController,
                                  requests, now)
    IN  /\ cache' = f.cache
        /\ currentAbortController' = f.current
        /\ requests' = f.requests
        /\ IF f.hit
           THEN /\ lastSettled' = [id |-> Len(f.requests), outcome |-> "cached",
                                   superseded |-> FALSE]
                /\ markers' = Len(f.requests)
                /\ loading' = FALSE
           ELSE /\ lastSettled' = lastSettled
                /\ markers' = markers
                /\ loading' = TRUE

\* the map was moved (or the page loaded) and updateCoffeeMarkers runs
UpdateCoffeeMarkers(bounds) ==
    /\ Len(requests) < MaxRequests
    /\ RunUpdateCoffeeMarkers(bounds, cache, filterState)
    /\ UNCHANGED <<now, filterState>>
    /\ UNCHANGED histVars
    /\ UNCHANGED uiVars

\* mutant: the cache is kept when a filter changes
ToggleFilterKeepingCache(type, bounds) ==
    /\ Len(requests) < MaxRequests
    /\ filterState' = [filterState EXCEPT ![type] = ~filterState[type]]
    /\ legend' = UpdateLegendItem(legend, type, filterState'[type])
    /\ RunUpdateCoffeeMarkers(bounds, cache, filterState')
    /\ UNCHANGED now
    /\ UNCHANGED histVars
    /\ UNCHANGED <<timers, debounceTimer, debounceLog, localStorage,
                   favoriteCalls, updateMarkersCallCount, toggleLog>>

\* a legend item was clicked: toggleFilter(type, updateCoffeeMarkers)
ToggleFilter(type, bounds) ==
    /\ Len(requests) < MaxRequests
    /\ filterState' = [filterState EXCEPT ![type] = ~filterState[type]]
    /\ legend' = UpdateLegendItem(legend, type, filterState'[type])
    /\ RunUpdateCoffeeMarkers(bounds, clearCache(cache).cache, filterState')
    /\ UNCHANGED now
    /\ UNCHANGED histVars
    /\ UNCHANGED <<timers, debounceTimer, debounceLog, localStorage,
                   favoriteCalls, updateMarkersCallCount, toggleLog>>

\* the request settles: the finally block of fetchCoffeeLocations, then the
\* rest of updateCoffeeMarkers
Settle(r, outcome, reqs) ==
    /\ requests' = [reqs EXCEPT ![r].pc = "done", ![r].cacheKey = NoKey,
                                ![r].aborted = FALSE]
    /\ lastSettled' = [id |-> r, outcome |-> outcome,
                       superseded |-> Superseded(reqs, r)]
    /\ currentAbortController' = FinallyClear(currentAbortController, r)
    /\ loading' = FALSE

\* fetch() resolves with a response; ok is response.ok
FetchResponds(r, ok) ==
    /\ requests[r].pc = "fetch"
    /\ ~requests[r].aborted
    /\ IF ok
       THEN /\ requests' = [requests EXCEPT ![r].pc = "json", ![r].timer = FALSE]
            /\ UNCHANGED <<currentAbortController, lastSettled, loading>>
       ELSE Settle(r, "error", [requests EXCEPT ![r].timer = FALSE])
    /\ UNCHANGED <<cache, now, filterState, markers>>
    /\ UNCHANGED histVars
    /\ UNCHANGED uiVars

\* fetch() rejects with a network error
FetchFails(r) ==
    /\ requests[r].pc = "fetch"
    /\ ~requests[r].aborted
    /\ Settle(r, "error", requests)
    /\ UNCHANGED <<cache, now, filterState, markers>>
    /\ UNCHANGED histVars
    /\ UNCHANGED uiVars

\* mutant: the catch block rethrows the cancellation as an ordinary error
RequestAbortsAsError(r) ==
    /\ requests[r].pc \in {"fetch", "json"}
    /\ requests[r].aborted
    /\ Settle(r, "error", requests)
    /\ UNCHANGED <<cache, now, filterState, markers>>
    /\ UNCHANGED histVars
    /\ UNCHANGED uiVars

\* fetch() or response.json() rejects with AbortError
RequestAborts(r) ==
    /\ requests[r].pc \in {"fetch", "json"}
    /\ requests[r].aborted
    /\ Settle(r, "abort", requests)
    /\ UNCHANGED <<cache, now, filterState, markers>>
    /\ UNCHANGED histVars
    /\ UNCHANGED uiVars

\* response.json() resolves with the payload
JsonResolves(r, payload) ==
    /\ requests[r].pc = "json"
    /\ ~requests[r].aborted
    /\ LET filteredElements == FilterElements(payload, filterState)
       IN  /\ cache' = setCache(cache, requests[r].cacheKey, filteredElements, now).cache
           /\ markers' = r
    /\ Settle(r, "success", requests)
    /\ UNCHANGED <<now, filterState>>
    /\ UNCHANGED histVars
    /\ UNCHANGED uiVars

\* mutant: a payload without elements array is stored as an empty result
JsonFailsStoringEmpty(r) ==
    /\ requests[r].pc = "json"
    /\ ~requests[r].aborted
    /\ cache' = setCache(cache, requests[r].cacheKey, <<>>, now).cache
    /\ Settle(r, "error", requests)
    /\ UNCHANGED <<now, filterState, markers>>
    /\ UNCHANGED histVars
    /\ UNCHANGED uiVars

\* response.json() rejects, or the payload has no elements array
JsonFails(r) ==
    /\ requests[r].pc = "json"
    /\ ~requests[r].aborted
    /\ Settle(r, "error", requests)
    /\ UNCHANGED <<cache, now, filterState, markers>>
    /\ UNCHANGED histVars
    /\ UNCHANGED uiVars

\* mutant: the callback aborts the controller the register holds
TimeoutFiresAbortsCurrent(r) ==
    /\ requests[r].timer
    /\ requests' = [AbortCurrent(requests, currentAbortController)
                        EXCEPT ![r].timer = FALSE]
    /\ UNCHANGED <<cache, now, filterState, currentAbortController, lastSettled,
                   loading, markers>>
    /\ UNCHANGED histVars
    /\ UNCHANGED uiVars

\* the timer set with OVERPASS_TIMEOUT fires: controller.abort(), on the
\* controller of its own call; nothing listens to the signal of a settled call
TimeoutFires(r) ==
    /\ requests[r].timer
    /\ requests' = [requests EXCEPT ![r].timer = FALSE,
                                    ![r].aborted = (requests[r].pc # "done")]
    /\ UNCHANGED <<cache, now, filterState, currentAbortController, lastSettled,
                   loading, markers>>
    /\ UNCHANGED histVars
    /\ UNCHANGED uiVars

Next ==
    \/ Tick
    \/ \E b \in Bounds : UpdateCoffeeMarkers(b)
    \/ \E t \in ToggledTypes, b \in Bounds : ToggleFilter(t, b)
    \/ \E r \in 1..Len(requests), ok \in BOOLEAN : FetchResponds(r, ok)
    \/ \E r \in 1..Len(requests) : FetchFails(r)
    \/ \E r \in 1..Len(requests) : RequestAborts(r)
    \/ \E r \in 1..Len(requests), payload \in Payloads : JsonResolves(r, payload)
    \/ \E r \in 1..Len(requests) : JsonFails(r)
    \/ \E r \in 1..Len(requests) : TimeoutFires(r)

Spec == Init /\ [][Next]_vars

\* ------------------------------------------------------------------------
\* Claims about the cache (checked under SpecCache)
\* ------------------------------------------------------------------------
\* the Map right after cache.set of the last setCache, before cleanupCache
AfterInsert == MapSet(lastOp.before, lastOp.key, lastOp.data, now)

\* indices of AfterInsert whose entry is unexpired and gone after the call
RemovedValid ==
    { i \in 1..Len(AfterInsert) :
        isEntryValid(AfterInsert[i], now) /\ ~MapHas(cache, AfterInsert[i].key) }

\* indices of AfterInsert whose entry is still stored after the call
Kept == { i \in 1..Len(AfterInsert) : MapHas(cache, AfterInsert[i].key) }

\* C1: whenever a mutating operation (setCache, getFromCache, clearCache) has
\* returned, the cache holds at most CACHE_MAX_SIZE entries.
C1_SizeBounded ==
    lastOp.op \in {"set", "get", "clear", "stats"} => Len(cache) <= CACHE_MAX_SIZE

\* a setCache of a new key into a full cache of unexpired entries has returned
C1_Witness ==
    /\ lastOp.op = "set"
    /\ Len(lastOp.before) = CACHE_MAX_SIZE
    /\ ~MapHas(lastOp.before, lastOp.key)
    /\ \A i \in 1..Len(lastOp.before) : isEntryValid(lastOp.before[i], now)
    /\ Len(cache) = CACHE_MAX_SIZE

\* C4: with setCache(k, d) at time t the latest set of k, getFromCache(k) at
\* time t' returns null and leaves no entry for k when t' - t >= CACHE_TTL,
\* returns d when t' - t < CACHE_TTL and k is still stored, and never
\* returns data whose age is CACHE_TTL or more.
C4_TtlExpiry ==
    (lastOp.op = "get" /\ lastOp.key = watched /\ lastSet.set) =>
        LET age == now - lastSet.t
        IN  /\ age >= CACHE_TTL => (lastOp.ret = null /\ ~MapHas(cache, watched))
            /\ (age < CACHE_TTL /\ MapHas(lastOp.before, watched))
                   => lastOp.ret = Value(lastSet.data)
            /\ lastOp.ret # null => age < CACHE_TTL

\* a getFromCache found the entry of k stored but expired, and removed it
C4_Witness ==
    /\ lastOp.op = "get"
    /\ lastOp.key = watched
    /\ lastSet.set
    /\ now - lastSet.t >= CACHE_TTL
    /\ MapHas(lastOp.before, watched)
    /\ lastOp.ret = null
    /\ ~MapHas(cache, watched)

\* C5: right after setCache(k, d), with no time elapsed, getFromCache(k)
\* returns d, whatever the cache held before: the eviction run by setCache
\* never removes the entry just written.
C5_SetThenGet ==
    lastOp.op = "set" =>
        getFromCache(cache, lastOp.key, now).ret = Value(lastOp.data)

\* a setCache evicted an entry whose timestamp equals that of the new entry
C5_Witness ==
    /\ lastOp.op = "set"
    /\ ~MapHas(lastOp.before, lastOp.key)
    /\ MapHas(cache, lastOp.key)
    /\ \E i \in RemovedValid : AfterInsert[i].timestamp = now

\* C6: the unexpired entries removed by setCache are exactly the oldest: as
\* many as exceed CACHE_MAX_SIZE, each with a timestamp at most that of every
\* entry that stays, and among equal timestamps the earlier inserted one goes.
C6_OldestEvicted ==
    lastOp.op = "set" =>
        LET valid == { i \in 1..Len(AfterInsert) : isEntryValid(AfterInsert[i], now) }
            excess == IF Cardinality(valid) > CACHE_MAX_SIZE
                      THEN Cardinality(valid) - CACHE_MAX_SIZE ELSE 0
        IN  /\ Cardinality(RemovedValid) = excess
            /\ \A i \in RemovedValid, j \in Kept :
                   \/ AfterInsert[i].timestamp < AfterInsert[j].timestamp
                   \/ /\ AfterInsert[i].timestamp = AfterInsert[j].timestamp
                      /\ i < j

\* a setCache evicted an entry and kept an old entry of the same timestamp
\* that was inserted after it
C6_Witness ==
    /\ lastOp.op = "set"
    /\ \E i \in RemovedValid :
           /\ \E j \in Kept : j # Len(AfterInsert)
                              /\ AfterInsert[j].timestamp = AfterInsert[i].timestamp
                              /\ i < j

\* C7: after every setCache no stored entry is expired, so getCacheStats
\* counts expiredEntries = 0 and totalEntries = validEntries; and when the
\* unexpired entries number at most CACHE_MAX_SIZE none of them is removed.
C7_SetPurgesExpired ==
    lastOp.op = "set" =>
        LET stats == getCacheStats(cache, now).ret
            valid == SelectSeq(AfterInsert, LAMBDA e : isEntryValid(e, now))
        IN  /\ \A i \in 1..Len(cache) : now - cache[i].timestamp < CACHE_TTL
            /\ stats.expiredEntries = 0
            /\ stats.totalEntries = stats.validEntries
            /\ Len(valid) <= CACHE_MAX_SIZE => cache = valid

\* a setCache found an expired entry under another key and purged it, keeping
\* an unexpired one
C7_Witness ==
    /\ lastOp.op = "set"
    /\ \E i \in 1..Len(lastOp.before) :
           /\ lastOp.before[i].key # lastOp.key
           /\ now - lastOp.before[i].timestamp >= CACHE_TTL
           /\ ~MapHas(cache, lastOp.before[i].key)
    /\ \E i \in 1..Len(lastOp.before) :
           /\ lastOp.before[i].key # lastOp.key
           /\ MapHas(cache, lastOp.before[i].key)

\* C8: clearCache leaves the cache empty, and a key set before it is absent
\* (getFromCache returns null) until it is set again.
C8_ClearRemovesAll ==
    /\ lastOp.op = "clear" => cache = <<>>
    /\ lastSet.cleared => ~MapHas(cache, watched)
    /\ (lastOp.op = "get" /\ lastOp.key = watched /\ lastSet.cleared)
           => lastOp.ret = null

\* a key set within CACHE_TTL, then cleared, is looked up and found absent
C8_Witness ==
    /\ lastOp.op = "get"
    /\ lastOp.key = watched
    /\ lastSet.cleared
    /\ now - lastSet.t < CACHE_TTL
    /\ lastOp.ret = null
    /\ cache # <<>>

\* C9: getCacheStats leaves the stored entries, their data and timestamps
\* as they were, also when some are expired, and its counts partition them.
C9_StatsPure ==
    lastOp.op = "stats" =>
        /\ cache = lastOp.before
        /\ lastOp.stats.totalEntries = Len(cache)
        /\ lastOp.stats.validEntries + lastOp.stats.expiredEntries = Len(cache)

\* getCacheStats ran on a cache holding an expired entry
C9_Witness ==
    /\ lastOp.op = "stats"
    /\ lastOp.stats.expiredEntries > 0
    /\ lastOp.stats.validEntries > 0
    /\ cache = lastOp.before

\* C10: getFromCache of a key without entry returns null and leaves all
\* entries unchanged.
C10_GetAbsentKey ==
    (lastOp.op = "get" /\ ~MapHas(lastOp.before, lastOp.key)) =>
        /\ lastOp.ret = null
        /\ cache = lastOp.before

\* a key without entry was looked up while an expired entry was stored
C10_Witness ==
    /\ lastOp.op = "get"
    /\ ~MapHas(lastOp.before, lastOp.key)
    /\ \E i \in 1..Len(lastOp.before) : ~isEntryValid(lastOp.before[i], now)
    /\ lastOp.ret = null

\* ------------------------------------------------------------------------
\* Claims about the fetch coordinator (checked under Spec)
\* ------------------------------------------------------------------------
\* the network request of call r is issued, not aborted and not settled
Live(r) == requests[r].pc \in {"fetch", "json"} /\ ~requests[r].aborted

\* C2: a request whose network call was unresolved when a later
\* fetchCoffeeLocations call was made is aborted and settles only as a
\* cancellation: never as success, the one outcome in which its response is
\* stored by setCache and returned to its caller, whatever the order in
\* which the responses arrive.
C2_SupersededNeverApplied ==
    /\ \A r \in 1..Len(requests) :
           (requests[r].pc \in {"fetch", "json"} /\ Superseded(requests, r))
               => requests[r].aborted
    /\ lastSettled.superseded => lastSettled.outcome = "abort"

\* the response of the later call arrived first: it has just succeeded while
\* the superseded request, its headers already received, is still unsettled
C2_Witness ==
    \E r \in 1..Len(requests) :
        /\ r < lastSettled.id
        /\ requests[r].pc = "json"
        /\ lastSettled.outcome = "success"

\* C3: at most one network request is live at any time, and it is the one
\* whose controller currentAbortController holds, so that the next call
\* aborts it before issuing its own.
C3_AtMostOneLive ==
    /\ Cardinality({ r \in 1..Len(requests) : Live(r) }) <= 1
    /\ \A r \in 1..Len(requests) : Live(r) => currentAbortController = r

\* a call was made while an earlier request was pending: the earlier one is
\* aborted and unsettled, the new one live
C3_Witness ==
    \E r1, r2 \in 1..Len(requests) :
        /\ r1 < r2
        /\ requests[r1].pc \in {"fetch", "json"}
        /\ requests[r1].aborted
        /\ Live(r2)

\* C11: every step that changes the filter state (toggleFilter) leaves the
\* cache without entry and sends the refresh it triggers to the network: the
\* refresh is never answered from an entry stored before the change.
C11_ToggleClearsCache ==
    [][filterState' # filterState =>
          /\ cache' = <<>>
          /\ Len(requests') = Len(requests) + 1
          /\ requests'[Len(requests')].pc = "fetch"
          /\ lastSettled' = lastSettled
          /\ markers' = markers]_vars

\* the first call stored its response; then a filter was switched off and on
\* again before anything expired: the cache is empty and the refresh of the
\* second change, for the filter set of the stored response, is at the network
C11_Witness ==
    /\ now = 0
    /\ filterState = InitFilterState
    /\ lastSettled = [id |-> 1, outcome |-> "success", superseded |-> FALSE]
    /\ markers = 1
    /\ cache = <<>>
    /\ Len(requests) = 3
    /\ requests[3].pc = "fetch"

\* C17: a request whose controller was aborted, by a later call or by its
\* timeout, settles as a cancellation (AbortError), the same in both cases
\* and distinct from the outcome of any other failure; the cache stays as it
\* was; and the register is cleared only if it holds this request's
\* controller.
C17_AbortedSettlesAsCancellation ==
    [][\A r \in 1..Len(requests) :
          (/\ requests[r].pc \in {"fetch", "json"}
           /\ requests[r].aborted
           /\ requests'[r].pc = "done")
              => /\ lastSettled'.id = r
                 /\ lastSettled'.outcome = "abort"
                 /\ cache' = cache
                 /\ currentAbortController' =
                        IF currentAbortController = r THEN NoController
                        ELSE currentAbortController]_vars

\* a request superseded by a later one has settled as a cancellation while
\* the register holds the later request, which has since timed out, and the
\* cache holds an entry
C17_Witness ==
    /\ lastSettled.outcome = "abort"
    /\ lastSettled.superseded
    /\ currentAbortController > lastSettled.id
    /\ requests[currentAbortController].pc = "fetch"
    /\ requests[currentAbortController].aborted
    /\ cache # <<>>

\* C18: when the network call of the request that holds the register fails
\* for a reason other than abort (fetch rejects, the status is not OK, the
\* payload is malformed), the call throws to its caller, the cache stays as
\* it was, and currentAbortController is null afterwards.
C18_FailureLeavesCacheAndIdle ==
    [][(lastSettled' # lastSettled /\ lastSettled'.outcome = "error") =>
          LET r == lastSettled'.id
          IN  /\ requests[r].pc \in {"fetch", "json"}
              /\ currentAbortController = r
              /\ requests'[r].pc = "done"
              /\ cache' = cache
              /\ markers' = markers
              /\ currentAbortController' = NoController]_vars

\* the response of a request was malformed while the cache held an entry and
\* the markers of an earlier call were shown: the call failed, the register
\* is empty and no request is pending
C18_Witness ==
    /\ lastSettled.outcome = "error"
    /\ lastSettled.id = Len(requests)
    /\ requests[lastSettled.id].timer = FALSE
    /\ currentAbortController = NoController
    /\ cache # <<>>
    /\ markers # NoMarkers
    /\ \A r \in 1..Len(requests) : requests[r].pc = "done"

\* C19: a call of fetchCoffeeLocations answered from the cache issues no
\* network request and leaves the cache as it was, every request issued
\* before it is cancelled, and currentAbortController is null when the call
\* returns.
C19_CacheHitIdle ==
    [][(Len(requests') = Len(requests) + 1 /\ lastSettled'.outcome = "cached"
        /\ lastSettled'.id = Len(requests')) =>
          /\ requests'[Len(requests')].pc = "done"
          /\ ~requests'[Len(requests')].timer
          /\ cache' = cache
          /\ \A r \in 1..Len(requests) :
                 requests'[r].pc \in {"fetch", "json"} => requests'[r].aborted
          /\ currentAbortController' = NoController]_vars

\* C20: whenever the marker layer is replaced, it is with the result of the
\* call issued last: never with the result of a call after a later call was
\* issued, in whatever order the responses arrive.
C20_MarkersInIssueOrder ==
    [][markers' # markers =>
          /\ markers' = Len(requests')
          /\ markers' > markers
          /\ requests'[markers'].pc = "done"]_vars

\* three calls overlapped: the first two, cancelled, are still unsettled, one
\* of them with its response headers received, and the markers are those of
\* the third, whose response arrived first
C20_Witness ==
    /\ Len(requests) = 3
    /\ markers = 3
    /\ lastSettled = [id |-> 3, outcome |-> "success", superseded |-> FALSE]
    /\ requests[1].pc = "json"
    /\ requests[2].pc = "fetch"
    /\ requests[1].aborted
    /\ requests[2].aborted

\* C25: the loading element is active whenever a request that was sent to the
\* network is pending and not cancelled, and inactive when no call is pending
C25_LoadingWhilePending ==
    /\ (\E r \in 1..Len(requests) : Live(r)) => loading
    /\ (\A r \in 1..Len(requests) : requests[r].pc = "done") => ~loading

\* the filter set F a key was built from: the one whose filter part is the key's
KeyFilters(key) ==
    CHOOSE fs \in [FilterTypes -> BOOLEAN] :
        getCacheKey(B1, ObjectEntries(fs))[5] = key[5]

\* the element has lat and lon, or a center
Resolvable(element) ==
    \/ ~element.lat.undefined /\ ~element.lon.undefined
    \/ element.center.present

\* C26: every element of every cache entry has resolvable coordinates and a
\* location type that is enabled in the filter set of the entry's key
C26_CachedMatchesKey ==
    \A i \in 1..Len(cache) :
        \A j \in 1..Len(cache[i].data) :
            /\ Resolvable(cache[i].data[j])
            /\ FilterFlag(KeyFilters(cache[i].key),
                          getLocationType(cache[i].data[j]))

\* the half of C26 about the filter set, which holds: a change of the filter
\* state cancels the pending request before its response can be stored
C26_CachedTypesEnabled ==
    \A i \in 1..Len(cache) :
        \A j \in 1..Len(cache[i].data) :
            FilterFlag(KeyFilters(cache[i].key),
                       getLocationType(cache[i].data[j]))

\* an entry was stored under a key without the roastery: the filter was switched
\* while the first request was reading its response, which is cancelled and
\* has not settled yet
C26_TypesWitness ==
    /\ Len(cache) = 1
    /\ ~KeyFilters(cache[1].key)["roastery"]
    /\ cache[1].data # <<>>
    /\ Len(requests) = 2
    /\ requests[1].pc = "json"
    /\ requests[1].aborted
    /\ lastSettled = [id |-> 2, outcome |-> "success", superseded |-> FALSE]

\* request r, pending before the step, has settled in it
Settles(r) ==
    /\ r \in 1..Len(requests)
    /\ requests[r].pc # "done"
    /\ requests'[r].pc = "done"

\* C27: a step in which a request settles sets the register to null when the
\* register held that request's controller, and leaves it as it was otherwise;
\* a newer request that was current before the step is current after it
C27_SettleClearsOwnOnly ==
    [][\A r \in 1..Len(requests) :
          Settles(r) =>
             /\ currentAbortController = r
                   => currentAbortController' = NoController
             /\ currentAbortController # r
                   => currentAbortController' = currentAbortController]_vars

\* the first request, cancelled by the second, has settled last; the second
\* is pending and its controller is still in the register
C27_Witness ==
    /\ Len(requests) >= 2
    /\ lastSettled = [id |-> 1, outcome |-> "abort", superseded |-> TRUE]
    /\ currentAbortController = 2
    /\ Live(2)

\* the timer of request r fires
TimerFiresFor(r) == r \in 1..Len(requests) /\ TimeoutFires(r)

\* the cancelled request r is rejected with AbortError
AbortRejects(r) == r \in 1..Len(requests) /\ RequestAborts(r)

\* What the runtime guarantees: an armed timer fires, and a cancelled fetch or
\* body read is rejected.  The network guarantees nothing: a response, or the
\* rest of its body, may never arrive.
FairSpec ==
    /\ Spec
    /\ \A r \in 1..MaxRequests : WF_vars(TimerFiresFor(r))
    /\ \A r \in 1..MaxRequests : WF_vars(AbortRejects(r))

\* every call has settled and the register is null
Idle ==
    /\ \A r \in 1..Len(requests) : requests[r].pc = "done"
    /\ currentAbortController = NoController

\* C28: a pending request that is not cancelled has its timer armed, through
\* the reading of the body too; and from some point on, when no further
\* request is issued, every request has settled and the register is null
C28_TimeoutCoversLifetime ==
    /\ [](\A r \in 1..Len(requests) : Live(r) => requests[r].timer)
    /\ <>[]Idle

\* the second half of C28 alone
C28_EventuallyIdle == <>[]Idle

\* the same for the requests that never get a response: the timer settles them
C28_SilentFetchSettles ==
    \A r \in 1..MaxRequests :
        (r \in 1..Len(requests) /\ requests[r].pc = "fetch")
            ~> (r \in 1..Len(requests) /\ requests[r].pc \in {"json", "done"})

\* the timer of request r has fired in the step: it was armed, it is not any
\* more, and the request is where it was (clearTimeout runs only when the
\* response arrives, which moves the request on)
TimerFired(r) ==
    /\ requests[r].timer
    /\ ~requests'[r].timer
    /\ requests'[r].pc = requests[r].pc

\* C30: a step in which the timer of request r fires leaves every other
\* request and the register as they were, and changes nothing at all about r
\* but its timer when r has settled
C30_TimerAbortsOwnOnly ==
    [][\A r \in 1..Len(requests) :
          TimerFired(r) =>
             /\ Len(requests') = Len(requests)
             /\ \A q \in 1..Len(requests) :
                   q # r => requests'[q] = requests[q]
             /\ currentAbortController' = currentAbortController
             /\ requests[r].pc = "done"
                   => requests'[r] = [requests[r] EXCEPT !.timer = FALSE]]_vars

\* the timer of the first request has fired while the request, cancelled or
\* not, was waiting for its response; the second request has settled with its
\* timer still armed; the third is pending and not cancelled
C30_Witness ==
    /\ Len(requests) = 3
    /\ requests[1].pc = "fetch"
    /\ requests[1].aborted
    /\ ~requests[1].timer
    /\ requests[2].pc = "done"
    /\ requests[2].timer
    /\ Live(3)
    /\ currentAbortController = 3

\* ------------------------------------------------------------------------
\* Claims about the functions without state (checked under SpecFunctions)
\* ------------------------------------------------------------------------
\* C12: for the same bounds, two filter objects with the same set of enabled
\* type names get the same key, in whatever order they list their properties
\* and whichever disabled names they carry.
C12_KeyOrderIndependent ==
    (/\ call.fn = "getCacheKey"
     /\ call.returned
     /\ call.args[1][1] = call.args[2][1]
     /\ EnabledSet(call.args[1][2]) = EnabledSet(call.args[2][2]))
        => call.ret[1] = call.ret[2]

\* two objects that list the same enabled names in different orders, one of
\* them with a disabled name the other lacks, got the same key
C12_Witness ==
    /\ call.fn = "getCacheKey"
    /\ call.returned
    /\ call.args[1][1] = call.args[2][1]
    /\ EnabledNames(call.args[1][2]) = <<"shop", "cafe">>
    /\ EnabledNames(call.args[2][2]) = <<"cafe", "shop">>
    /\ Len(call.args[1][2]) = 3
    /\ Len(call.args[2][2]) = 2
    /\ call.ret[1] = call.ret[2]

NumberOf(str) == IF str.neg THEN 0 - str.mag ELSE str.mag

Edges == {"south", "west", "north", "east"}

\* the two viewports round to the same value on every edge
SameRounding(bounds1, bounds2) ==
    \A e \in Edges :
        NumberOf(toFixed3(bounds1[e])) = NumberOf(toFixed3(bounds2[e]))

\* C14: for the same filter object, two viewports get the same key exactly
\* when south, west, north and east each round to the same value at 3
\* decimals; the key holds the four rounded coordinates in that order.
C14_SameKeyIffSameRounding ==
    (/\ call.fn = "getCacheKey"
     /\ call.returned
     /\ call.args[1][2] = call.args[2][2])
        => /\ (call.ret[1] = call.ret[2])
                  <=> SameRounding(call.args[1][1], call.args[2][1])
           /\ \A i \in 1..2 :
                  LET bounds == call.args[i][1]
                      key    == call.ret[i]
                  IN  /\ Abs(10 * NumberOf(key[1]) - bounds.south) < 5
                      /\ Abs(10 * NumberOf(key[2]) - bounds.west) < 5
                      /\ Abs(10 * NumberOf(key[3]) - bounds.north) < 5
                      /\ Abs(10 * NumberOf(key[4]) - bounds.east) < 5

\* C15: getLocationType classifies by strict priority, first match wins:
\* craft=roaster gives roastery; otherwise shop=coffee gives shop; otherwise
\* amenity=fast_food with cuisine=sandwich gives sandwich; otherwise cafe.
C15_StrictPriority ==
    (call.fn = "getLocationType" /\ call.returned) =>
        LET tags     == call.args[1]
            roaster  == tags.craft = "roaster"
            coffee   == tags.shop = "coffee"
            sandwich == tags.amenity = "fast_food" /\ tags.cuisine = "sandwich"
        IN  /\ roaster => call.ret = "roastery"
            /\ (~roaster /\ coffee) => call.ret = "shop"
            /\ (~roaster /\ ~coffee /\ sandwich) => call.ret = "sandwich"
            /\ (~roaster /\ ~coffee /\ ~sandwich) => call.ret = "cafe"

\* tags with the roaster, the coffee shop and the sandwich markers together
\* were classified as roastery
C15_Witness ==
    /\ call.fn = "getLocationType"
    /\ call.returned
    /\ call.args[1].craft = "roaster"
    /\ call.args[1].shop = "coffee"
    /\ call.args[1].amenity = "fast_food"
    /\ call.args[1].cuisine = "sandwich"
    /\ call.ret = "roastery"

\* the element carries direct coordinates
HasLatLon(element) == ~element.lat.undefined /\ ~element.lon.undefined

\* C16: getElementCoordinates returns the element's lat and lon whenever the
\* element carries them, also when it has a center; the center's coordinates
\* only when lat and lon are missing; and null when it carries neither.
C16_DirectBeforeCenter ==
    (call.fn = "getElementCoordinates" /\ call.returned) =>
        LET element == call.args[1]
        IN  /\ HasLatLon(element)
                   => call.ret = Value([lat |-> element.lat, lon |-> element.lon])
            /\ (~HasLatLon(element) /\ element.center.present)
                   => call.ret = Value([lat |-> element.center.lat,
                                        lon |-> element.center.lon])
            /\ (~HasLatLon(element) /\ ~element.center.present)
                   => call.ret = null

\* ---------------------------------------------------------------------------
\* utils.js: debounce, driven by a direct caller.  The clock is `now`; a timer
\* runs when it is due or later, as the event loop gets to it.

\* config.js: MAP_MOVE_DEBOUNCE, the delay main.js passes to debounce, in ticks
MAP_MOVE_DEBOUNCE == 2

MaxClock == 5

MaxCalls == 3

\* the argument lists the debounced function is called with
DebounceArgs == {"a", "b"}

Timer(handle, due, args) == [handle |-> handle, due |-> due, args |-> args]

\* clearTimeout(handle): the timer is taken off; nothing for a handle that is
\* undefined or has run
clearTimeoutNothing(ts, handle) == ts

clearTimeout(ts, handle) == {x \in ts : x.handle # handle}

DebounceEvent(ev, t, args) == [ev |-> ev, t |-> t, args |-> args]

CallsOf(log) == {i \in 1..Len(log) : log[i].ev = "call"}

RunsOf(log) == {i \in 1..Len(log) : log[i].ev = "run"}

InitDebounce ==
    /\ cache = <<>>
    /\ now = 0
    /\ lastOp = NoOp
    /\ watched = NoKey
    /\ lastSet = NeverSet
    /\ call = NoCall
    /\ InitApp
    /\ InitUi

\* the function debounce returns, called with args: clearTimeout, setTimeout
Debounced(args) ==
    /\ Cardinality(CallsOf(debounceLog)) < MaxCalls
    /\ now + MAP_MOVE_DEBOUNCE <= MaxClock
    /\ LET handle == Cardinality(CallsOf(debounceLog)) + 1
       IN  /\ timers' = clearTimeout(timers, debounceTimer)
                            \cup {Timer(handle, now + MAP_MOVE_DEBOUNCE, args)}
           /\ debounceTimer' = handle
    /\ debounceLog' = Append(debounceLog, DebounceEvent("call", now, args))
    /\ UNCHANGED <<cache, now, localStorage, favoriteCalls, legend,
                   updateMarkersCallCount, toggleLog>>
    /\ UNCHANGED appVars
    /\ UNCHANGED histVars

\* the callback of a timer: func.apply(context, args)
DebounceTimerRuns(x) ==
    /\ x \in timers
    /\ now >= x.due
    /\ timers' = timers \ {x}
    /\ debounceLog' = Append(debounceLog, DebounceEvent("run", now, x.args))
    /\ UNCHANGED <<cache, now, debounceTimer, localStorage, favoriteCalls,
                   legend, updateMarkersCallCount, toggleLog>>
    /\ UNCHANGED appVars
    /\ UNCHANGED histVars

Elapse ==
    /\ now < MaxClock
    /\ now' = now + 1
    /\ UNCHANGED cache
    /\ UNCHANGED uiVars
    /\ UNCHANGED appVars
    /\ UNCHANGED histVars

TimerRuns == \E x \in timers : DebounceTimerRuns(x)

NextDebounce ==
    \/ \E args \in DebounceArgs : Debounced(args)
    \/ TimerRuns
    \/ Elapse

SpecDebounce == InitDebounce /\ [][NextDebounce]_vars

\* the event loop runs a due timer, and time passes
FairDebounce == SpecDebounce /\ WF_vars(TimerRuns) /\ WF_vars(Elapse)

\* C21 (safety half): func runs only as the event right after a call of the
\* debounced function, with the arguments of that call and not before the
\* delay has passed since it; between two calls less than the delay apart func
\* does not run
C21_RunsOnceAfterLastCall ==
    /\ \A i \in RunsOf(debounceLog) :
          /\ i > 1
          /\ debounceLog[i - 1].ev = "call"
          /\ debounceLog[i].args = debounceLog[i - 1].args
          /\ debounceLog[i].t >= debounceLog[i - 1].t + MAP_MOVE_DEBOUNCE
    /\ \A i, k \in CallsOf(debounceLog) :
          (i < k /\ debounceLog[k].t - debounceLog[i].t < MAP_MOVE_DEBOUNCE)
             => \A j \in i..k : debounceLog[j].ev = "call"

LastEvent(log) == IF log = <<>> THEN "none" ELSE log[Len(log)].ev

\* C21: the above in every state, and every burst is followed by its one run:
\* after a call of the debounced function func eventually runs
C21_Debounce ==
    /\ []C21_RunsOnceAfterLastCall
    /\ (LastEvent(debounceLog) = "call") ~> (LastEvent(debounceLog) = "run")

\* a burst of three calls, the second and third each one tick after the one
\* before, then the one run of func, two ticks after the third call and with
\* its arguments
C21_Witness ==
    /\ Len(debounceLog) = 4
    /\ \A i \in 1..3 : debounceLog[i].ev = "call" /\ debounceLog[i].t = i - 1
    /\ debounceLog[1].args # debounceLog[3].args
    /\ debounceLog[4] = DebounceEvent("run", 4, debounceLog[3].args)
    /\ timers = {}

\* ---------------------------------------------------------------------------
\* filters.js: toggleFilter, driven by a direct caller that hands it a counting
\* callback, on a document that has a legend item for some of the types

MaxToggles == 3

Legends ==
    { [t \in FilterTypes |-> LegendItem(t \in present, FALSE)] :
          present \in SUBSET FilterTypes }

ToggleCall(type, before, after) ==
    [type |-> type, before |-> before, after |-> after]

InitFilters ==
    /\ cache = <<>>
    /\ now = 0
    /\ lastOp = NoOp
    /\ watched = NoKey
    /\ lastSet = NeverSet
    /\ call = NoCall
    /\ InitApp
    /\ timers = {}
    /\ debounceTimer = NoTimer
    /\ debounceLog = <<>>
    /\ localStorage = NoItem
    /\ favoriteCalls = <<>>
    /\ legend \in Legends
    /\ updateMarkersCallCount = 0
    /\ toggleLog = <<>>

\* mutant: the callback runs in the branch of the legend item
CallToggleFilterLegendOnly(type) ==
    /\ Len(toggleLog) < MaxToggles
    /\ filterState' = [filterState EXCEPT ![type] = ~filterState[type]]
    /\ cache' = clearCache(cache).cache
    /\ legend' = UpdateLegendItem(legend, type, filterState'[type])
    /\ updateMarkersCallCount' =
           IF legend[type].exists THEN updateMarkersCallCount + 1
                                  ELSE updateMarkersCallCount
    /\ toggleLog' = Append(toggleLog, ToggleCall(type, filterState, filterState'))
    /\ UNCHANGED <<now, lastOp, watched, lastSet, call>>
    /\ UNCHANGED <<currentAbortController, requests, lastSettled, loading,
                   markers>>
    /\ UNCHANGED <<timers, debounceTimer, debounceLog, localStorage,
                   favoriteCalls>>

\* toggleFilter(type, updateMarkersCallback)
CallToggleFilter(type) ==
    /\ Len(toggleLog) < MaxToggles
    /\ filterState' = [filterState EXCEPT ![type] = ~filterState[type]]
    /\ cache' = clearCache(cache).cache
    /\ legend' = UpdateLegendItem(legend, type, filterState'[type])
    /\ updateMarkersCallCount' = updateMarkersCallCount + 1
    /\ toggleLog' = Append(toggleLog, ToggleCall(type, filterState, filterState'))
    /\ UNCHANGED <<now, lastOp, watched, lastSet, call>>
    /\ UNCHANGED <<currentAbortController, requests, lastSettled, loading,
                   markers>>
    /\ UNCHANGED <<timers, debounceTimer, debounceLog, localStorage,
                   favoriteCalls>>

NextFilters == \E type \in FilterTypes : CallToggleFilter(type)

SpecFilters == InitFilters /\ [][NextFilters]_vars

\* C22: every call of toggleFilter negates the flag of its type and keeps the
\* other flags; the callback has run once per call, whether or not the
\* document has the legend item; two calls in a row for one type end in the
\* filter state the first of them started from
C22_ToggleFrame ==
    /\ \A i \in 1..Len(toggleLog) :
          LET c == toggleLog[i]
          IN  /\ c.after[c.type] = ~c.before[c.type]
              /\ \A t \in FilterTypes \ {c.type} : c.after[t] = c.before[t]
    /\ updateMarkersCallCount = Len(toggleLog)
    /\ \A i \in 1..(Len(toggleLog) - 1) :
          toggleLog[i].type = toggleLog[i + 1].type
             => toggleLog[i + 1].after = toggleLog[i].before
    /\ toggleLog # <<>> => filterState = toggleLog[Len(toggleLog)].after

\* a type without legend item was toggled twice in a row, after another type
C22_Witness ==
    /\ Len(toggleLog) = 3
    /\ toggleLog[2].type = toggleLog[3].type
    /\ toggleLog[1].type # toggleLog[2].type
    /\ ~legend[toggleLog[2].type].exists
    /\ legend[toggleLog[1].type].exists
    /\ updateMarkersCallCount = 3
    /\ filterState = toggleLog[1].after

\* ---------------------------------------------------------------------------
\* favorites.js, driven by a direct caller.  localStorage.setItem either stores
\* the text or throws (the storage is full or refuses writes), which
\* saveFavorites catches and logs.

MaxFavoriteCalls == 3

Favorite(id, type, name) == [id |-> id, type |-> type, name |-> name]

\* two elements with the same id and type and different tags, one with the
\* same id and another type, one with another id
FavoriteElements ==
    { Favorite(1, "node", "Cafe 1"), Favorite(1, "node", "Test Cafe"),
      Favorite(1, "way", "Cafe"), Favorite(2, "node", "Cafe 2") }

\* JSON.stringify of the list, as the item that holds it
JSONstringify(favorites) == [present |-> TRUE, json |-> favorites]

JSONparse(stored) == stored.json

loadFavorites(stored) == IF stored.present THEN JSONparse(stored) ELSE <<>>

\* stored is the item before; ok tells whether setItem stores or throws
saveFavorites(stored, favorites, ok) ==
    IF ok THEN JSONstringify(favorites) ELSE stored

\* fav.id === element.id && fav.type === element.type
SameFavorite(fav, element) == fav.id = element.id /\ fav.type = element.type

Some(favorites, element) ==
    \E i \in 1..Len(favorites) : SameFavorite(favorites[i], element)

RECURSIVE Filter(_, _)
\* favorites.filter(fav => !(same id and type as element))
Filter(favorites, element) ==
    IF favorites = <<>> THEN <<>>
    ELSE IF SameFavorite(Head(favorites), element)
         THEN Filter(Tail(favorites), element)
         ELSE <<Head(favorites)>> \o Filter(Tail(favorites), element)

\* mutant: the element is pushed without looking for it
addFavoriteUnchecked(stored, element, ok) ==
    saveFavorites(stored, Append(loadFavorites(stored), element), ok)

\* the item after addFavorite(element)
addFavorite(stored, element, ok) ==
    LET favorites == loadFavorites(stored)
    IN  IF Some(favorites, element)
        THEN stored
        ELSE saveFavorites(stored, Append(favorites, element), ok)

\* the item after removeFavorite(element)
removeFavorite(stored, element, ok) ==
    saveFavorites(stored, Filter(loadFavorites(stored), element), ok)

isFavorite(stored, element) == Some(loadFavorites(stored), element)

\* the item after toggleFavorite(element), and what it returns
toggleFavorite(stored, element, ok) ==
    IF isFavorite(stored, element)
    THEN [localStorage |-> removeFavorite(stored, element, ok), ret |-> FALSE]
    ELSE [localStorage |-> addFavorite(stored, element, ok), ret |-> TRUE]

FavoriteCall(fn, element, before, after, ret, ok) ==
    [fn |-> fn, element |-> element, before |-> before, after |-> after,
     ret |-> ret, ok |-> ok]

InitFavorites ==
    /\ cache = <<>>
    /\ now = 0
    /\ lastOp = NoOp
    /\ watched = NoKey
    /\ lastSet = NeverSet
    /\ call = NoCall
    /\ InitApp
    /\ InitUi

FavoritesFrame ==
    /\ UNCHANGED <<cache, now, lastOp, watched, lastSet, call>>
    /\ UNCHANGED appVars
    /\ UNCHANGED <<timers, debounceTimer, debounceLog, legend,
                   updateMarkersCallCount, toggleLog>>

CallAddFavorite(element, ok) ==
    /\ Len(favoriteCalls) < MaxFavoriteCalls
    /\ localStorage' = addFavorite(localStorage, element, ok)
    /\ favoriteCalls' = Append(favoriteCalls,
           FavoriteCall("addFavorite", element, localStorage, localStorage',
                        <<>>, ok))
    /\ FavoritesFrame

CallRemoveFavorite(element, ok) ==
    /\ Len(favoriteCalls) < MaxFavoriteCalls
    /\ localStorage' = removeFavorite(localStorage, element, ok)
    /\ favoriteCalls' = Append(favoriteCalls,
           FavoriteCall("removeFavorite", element, localStorage, localStorage',
                        <<>>, ok))
    /\ FavoritesFrame

CallToggleFavorite(element, ok) ==
    /\ Len(favoriteCalls) < MaxFavoriteCalls
    /\ LET toggled == toggleFavorite(localStorage, element, ok)
       IN  /\ localStorage' = toggled.localStorage
           /\ favoriteCalls' = Append(favoriteCalls,
                  FavoriteCall("toggleFavorite", element, localStorage,
                               toggled.localStorage, <<toggled.ret>>, ok))
    /\ FavoritesFrame

NextFavorites ==
    \E element \in FavoriteElements, ok \in BOOLEAN :
        \/ CallAddFavorite(element, ok)
        \/ CallRemoveFavorite(element, ok)
        \/ CallToggleFavorite(element, ok)

SpecFavorites == InitFavorites /\ [][NextFavorites]_vars

NoDuplicates(favorites) ==
    \A i, j \in 1..Len(favorites) :
        SameFavorite(favorites[i], favorites[j]) => i = j

CallsNamed(fn) ==
    {i \in 1..Len(favoriteCalls) : favoriteCalls[i].fn = fn}

\* C23: the stored list never holds two entries with the same id and type;
\* addFavorite of an element whose id and type are stored leaves the item as
\* it was; addFavorite of an element whose id and type are not both stored,
\* when the write succeeds, appends it, whatever ids and types are stored
C23_NoDuplicateFavorites ==
    /\ NoDuplicates(loadFavorites(localStorage))
    /\ \A i \in CallsNamed("addFavorite") :
          LET c == favoriteCalls[i]
          IN  /\ isFavorite(c.before, c.element) => c.after = c.before
              /\ (~isFavorite(c.before, c.element) /\ c.ok)
                    => loadFavorites(c.after)
                           = Append(loadFavorites(c.before), c.element)

\* the node 1 and the way 1 are both stored, and the last call was addFavorite
\* of node 1 with other tags, which changed nothing
C23_Witness ==
    /\ Len(loadFavorites(localStorage)) = 2
    /\ isFavorite(localStorage, Favorite(1, "node", "Cafe 1"))
    /\ isFavorite(localStorage, Favorite(1, "way", "Cafe"))
    /\ Len(favoriteCalls) = 3
    /\ favoriteCalls[3].fn = "addFavorite"
    /\ favoriteCalls[3].element \notin
           {loadFavorites(localStorage)[i] : i \in 1..2}
    /\ favoriteCalls[3].element.id = 1
    /\ favoriteCalls[3].element.type = "node"
    /\ favoriteCalls[3].after = favoriteCalls[3].before

\* the ids and types of the elements
FavoritePairs == {<<f.id, f.type>> : f \in FavoriteElements}

IsStored(stored, pair) ==
    \E i \in 1..Len(loadFavorites(stored)) :
        <<loadFavorites(stored)[i].id, loadFavorites(stored)[i].type>> = pair

\* C24: toggleFavorite(e) returns true exactly when e was not a favorite
\* before; afterwards isFavorite(e) is what it returned; every other id and
\* type is stored after the call exactly when it was before; after two calls
\* in a row for e, e is a favorite exactly when it was before the first
C24_ToggleFavorite ==
    /\ \A i \in CallsNamed("toggleFavorite") :
          LET c == favoriteCalls[i]
          IN  /\ c.ret = <<~isFavorite(c.before, c.element)>>
              /\ <<isFavorite(c.after, c.element)>> = c.ret
              /\ \A pair \in FavoritePairs \ {<<c.element.id, c.element.type>>} :
                    IsStored(c.after, pair) = IsStored(c.before, pair)
    /\ \A i \in CallsNamed("toggleFavorite") :
          (/\ i + 1 \in CallsNamed("toggleFavorite")
           /\ favoriteCalls[i + 1].element = favoriteCalls[i].element)
             => isFavorite(favoriteCalls[i + 1].after, favoriteCalls[i].element)
                    = isFavorite(favoriteCalls[i].before, favoriteCalls[i].element)

\* the same, for the calls whose write to the storage succeeded
C24_ToggleFavoriteWhenStored ==
    /\ \A i \in CallsNamed("toggleFavorite") :
          LET c == favoriteCalls[i]
          IN  /\ c.ret = <<~isFavorite(c.before, c.element)>>
              /\ c.ok => <<isFavorite(c.after, c.element)>> = c.ret
              /\ \A pair \in FavoritePairs \ {<<c.element.id, c.element.type>>} :
                    IsStored(c.after, pair) = IsStored(c.before, pair)
    /\ \A i \in CallsNamed("toggleFavorite") :
          (/\ i + 1 \in CallsNamed("toggleFavorite")
           /\ favoriteCalls[i + 1].element = favoriteCalls[i].element
           /\ favoriteCalls[i].ok
           /\ favoriteCalls[i + 1].ok)
             => isFavorite(favoriteCalls[i + 1].after, favoriteCalls[i].element)
                    = isFavorite(favoriteCalls[i].before, favoriteCalls[i].element)

\* ---------------------------------------------------------------------------
\* api.js: fetchCoffeeLocations called with bounds whose accessors do not
\* return numbers, next to the calls the page makes.  One accessor returns
\* undefined; undefined.toFixed(3) throws a TypeError.

Sides == {"south", "west", "north", "east"}

\* B1 with the given side undefined
Malformed(side) ==
    [s \in Sides |-> IF s = side THEN undefined ELSE Num(B1[s])]

MalformedBounds == {Malformed(side) : side \in Sides}

\* x.toFixed(3) throws
toFixedThrows(x) == x.undefined

getCacheKeyThrows(bounds) == \E s \in Sides : toFixedThrows(bounds[s])

\* mutant: the key is derived before the pending request is cancelled
fetchCoffeeLocationsThrowingKeyFirst(bounds, c, cur, reqs) ==
    [cache |-> c, current |-> cur, thrown |-> "TypeError",
     requests |-> Append(reqs,
         [pc |-> "done", aborted |-> FALSE, timer |-> FALSE, cacheKey |-> NoKey])]

\* fetchCoffeeLocations(bounds) when getCacheKey throws: the pending request
\* is cancelled, then the error leaves the function
fetchCoffeeLocationsThrowing(bounds, c, cur, reqs) ==
    [cache |-> c, current |-> cur, thrown |-> "TypeError",
     requests |-> Append(AbortCurrent(reqs, cur),
         [pc |-> "done", aborted |-> FALSE, timer |-> FALSE, cacheKey |-> NoKey])]

CallFetchMalformed(bounds) ==
    /\ Len(requests) < MaxRequests
    /\ getCacheKeyThrows(bounds)
    /\ LET f == fetchCoffeeLocationsThrowing(bounds, cache,
                                            currentAbortController, requests)
       IN  /\ cache' = f.cache
           /\ currentAbortController' = f.current
           /\ requests' = f.requests
           /\ lastSettled' = [id |-> Len(f.requests), outcome |-> f.thrown,
                              superseded |-> FALSE]
    /\ UNCHANGED <<now, filterState, loading, markers>>
    /\ UNCHANGED histVars
    /\ UNCHANGED uiVars

NextDirect ==
    \/ \E b \in Bounds : UpdateCoffeeMarkers(b)
    \/ \E b \in MalformedBounds : CallFetchMalformed(b)
    \/ \E r \in 1..Len(requests), ok \in BOOLEAN : FetchResponds(r, ok)
    \/ \E r \in 1..Len(requests) : FetchFails(r)
    \/ \E r \in 1..Len(requests) : RequestAborts(r)
    \/ \E r \in 1..Len(requests), payload \in Payloads : JsonResolves(r, payload)
    \/ \E r \in 1..Len(requests) : JsonFails(r)
    \/ \E r \in 1..Len(requests) : TimeoutFires(r)

SpecDirect == Init /\ [][NextDirect]_vars

\* the step is a call that failed in key derivation
MalformedCall ==
    /\ Len(requests') = Len(requests) + 1
    /\ lastSettled'.id = Len(requests')
    /\ lastSettled'.outcome = "TypeError"

\* C29 as stated: a call with malformed bounds throws, sends nothing to the
\* network, leaves the cache and the register as they were, and leaves every
\* earlier request as it was
C29_MalformedLeavesState ==
    [][MalformedCall =>
          /\ requests'[Len(requests')].pc = "done"
          /\ cache' = cache
          /\ currentAbortController' = currentAbortController
          /\ \A r \in 1..Len(requests) : requests'[r] = requests[r]]_vars

\* C29, amended: a call with malformed bounds throws, sends nothing to the
\* network, leaves the cache and the register as they were, and cancels the
\* request whose controller the register holds; every other request is left
\* as it was
C29_MalformedCancelsPending ==
    [][MalformedCall =>
          /\ requests'[Len(requests')].pc = "done"
          /\ ~requests'[Len(requests')].timer
          /\ cache' = cache
          /\ currentAbortController' = currentAbortController
          /\ \A r \in 1..Len(requests) :
                requests'[r] = IF r = currentAbortController
                               THEN [requests[r] EXCEPT !.aborted = TRUE]
                               ELSE requests[r]]_vars

\* the second call failed in key derivation while the first request was
\* pending: the first is cancelled and its controller is still in the register
C29_Witness ==
    /\ Len(requests) = 2
    /\ lastSettled = [id |-> 2, outcome |-> "TypeError", superseded |-> FALSE]
    /\ requests[1].pc = "fetch"
    /\ requests[1].aborted
    /\ currentAbortController = 1
    /\ cache = <<>>

====
